---- MODULE Spec2Model ----
(***************************************************************************)
(* The Any type-erased value container (src/src/any.c) as a state machine. *)
(*                                                                         *)
(* State: the box headers (struct Any), the heap buffers the boxes point   *)
(* to, and the allocation counter of the tracking allocator.  Every API    *)
(* function is an operator from a state (and its arguments, and the        *)
(* outcome the C library chose for each allocation) to the state after the *)
(* call, its return value and the undefined behaviour it ran into; Next    *)
(* applies one call per step.  A pre/post condition of a call is stated as  *)
(* a predicate on the state the call starts in, over every such call.      *)
(***************************************************************************)
EXTENDS Integers, Sequences, FiniteSets, TLC

\* ------------------------------------------------------------------ bounds
MaxBoxes == 2      \* box headers that can exist at once
MaxAddr == 3       \* heap addresses for value buffers
MaxLen == 2        \* longest payload, in bytes

\* ------------------------------------------------------------- value sets
NULL == 0
Boxes == 1..MaxBoxes              \* header addresses
Any_null == MaxBoxes + 1          \* the address of Any_null_value
Addrs == 1..MaxAddr
Bytes == {0, 1}
TypeIDs == {0, 1}
Sizes == 0..MaxLen
Payloads == {[i \in 1..n |-> b] : n \in Sizes, b \in Bytes}

\* struct Any; Any_null_value is the all-zero sentinel Any_null points to
ZeroBox ==
    [type |-> 0, size |-> 0, value |-> NULL, has_value |-> FALSE,
     is_user_defined |-> FALSE]
Any_null_value == ZeroBox

DeadBuf == [live |-> FALSE, bytes |-> <<>>]

VARIABLES
    box,                \* header address -> struct Any fields
    hdr,                \* header address -> "free" | "live"
    heap,               \* buffer address -> [live, bytes]
    g_any_alloc_count,  \* the tracking allocator's counter
    fault,              \* the undefined behaviour the program ran into
    copyOf              \* header address -> the box it was copied from by
                        \*   Any_Copy, while both exist; NULL otherwise

vars == <<box, hdr, heap, g_any_alloc_count, fault, copyOf>>

Cur == [box |-> box, hdr |-> hdr, heap |-> heap, cnt |-> g_any_alloc_count]

\* ---------------------------------------------------------------- helpers
Zeros(n) == [i \in 1..n |-> 0]
Min(a, b) == IF a < b THEN a ELSE b
Prefix(q, n) == [i \in 1..Min(n, Len(q)) |-> q[i]]
SetMin(S) == CHOOSE x \in S : \A y \in S : x <= y

\* A pointer to a buffer is its address a; once the buffer is freed, a
\* pointer to it that is still held is indeterminate, written -a: it still
\* holds the address, and using it is undefined behaviour.
IsStale(p) == p < 0
Addr(p) == IF p < 0 THEN 0 - p ELSE p

\* the fields read through a handle: a box header or the sentinel
Fld(s, h) == IF h = Any_null THEN Any_null_value ELSE s.box[h]

LiveBoxes(s) == {h \in Boxes : s.hdr[h] = "live"}
FreeSlots(s) == {h \in Boxes : s.hdr[h] = "free"}
FreeAddrs(s) == {a \in Addrs : ~s.heap[a].live}
LiveAddrs(s) == {a \in Addrs : s.heap[a].live}

\* the addresses some live box still holds
Referenced(s) == {Addr(s.box[h].value) : h \in LiveBoxes(s)} \ {NULL}

\* The addresses an allocation can return: a free address a box still holds
\* (the allocator reuses freed memory), or a free address no box holds;
\* these are interchangeable, so the lowest stands for them all.
AllocChoices(s) ==
    LET held == FreeAddrs(s) \cap Referenced(s)
        clean == FreeAddrs(s) \ Referenced(s)
    IN held \cup (IF clean = {} THEN {} ELSE {SetMin(clean)})

\* the header an Any_calloc(1, sizeof(Any)) can return, or the storage a
\* caller can hand to Any_Init: free headers are interchangeable
HeaderChoices(s) == IF FreeSlots(s) = {} THEN {} ELSE {SetMin(FreeSlots(s))}

\* the first undefined behaviour of two steps
Ub2(u, v) == IF u # "none" THEN u ELSE v

\* freeing the buffer at a makes every pointer to it indeterminate
Invalidate(s, a) ==
    [s EXCEPT !.heap[a] = DeadBuf,
              !.box = [h \in Boxes |->
                         IF @[h].value = a THEN [@[h] EXCEPT !.value = 0 - a]
                         ELSE @[h]]]

\* the n bytes a pointer p designates (what a caller reading Get's view sees)
ReadBytes(s, p, n) ==
    IF p = NULL \/ n = 0 THEN <<>> ELSE Prefix(s.heap[Addr(p)].bytes, n)

\* undefined behaviour of touching n bytes at p
AccessUb(s, p, n) ==
    IF n = 0 THEN "none"
    ELSE IF p = NULL THEN "null_deref"
    ELSE IF IsStale(p) \/ ~s.heap[p].live THEN "use_after_free"
    ELSE IF Len(s.heap[p].bytes) < n THEN "heap_overflow"
    ELSE "none"

\* mutant: the last byte is not copied
MemcpyTo_Short(s, p, q, n) ==
    IF n = 0 \/ p = NULL \/ ~s.heap[Addr(p)].live THEN s
    ELSE [s EXCEPT !.heap[Addr(p)].bytes =
            [i \in 1..Len(@) |-> IF i < n /\ i <= Len(q) THEN q[i] ELSE @[i]]]

\* memcpy(p, q, n): the first n bytes at p become q
MemcpyTo(s, p, q, n) ==
    IF n = 0 \/ p = NULL \/ ~s.heap[Addr(p)].live THEN s
    ELSE [s EXCEPT !.heap[Addr(p)].bytes =
            [i \in 1..Len(@) |-> IF i <= n /\ i <= Len(q) THEN q[i] ELSE @[i]]]

\* ------------------------------------------------- the tracking allocator
\* mutant: the buffer is not zero-filled (malloc in place of calloc)
Any_calloc_NotZeroed(s, a, n) ==
    IF a = NULL THEN [s |-> s, ptr |-> NULL]
    ELSE [s |-> [s EXCEPT !.heap[a] = [live |-> TRUE, bytes |-> [i \in 1..n |-> 1]],
                          !.cnt = @ + 1],
          ptr |-> a]

\* Any_calloc(1, n) for a value buffer; a is the address calloc returned,
\* NULL when it failed (or, for n = 0, when the C library returns NULL)
Any_calloc(s, a, n) ==
    IF a = NULL THEN [s |-> s, ptr |-> NULL]
    ELSE [s |-> [s EXCEPT !.heap[a] = [live |-> TRUE, bytes |-> Zeros(n)],
                          !.cnt = @ + 1],
          ptr |-> a]

\* Any_free(p) for a value buffer
Any_free(s, p) ==
    IF p = NULL THEN [s |-> s, ub |-> "none"]
    ELSE [s |-> [Invalidate(s, Addr(p)) EXCEPT !.cnt = @ - 1],
          ub |-> IF IsStale(p) \/ ~s.heap[p].live THEN "double_free"
                 ELSE "none"]

\* The outcomes realloc(old, n) can have.  mode: "fail" (NULL, old kept),
\* "inplace" (old resized), "move" (new block at addr, old freed),
\* "free_null" (n = 0: old freed and NULL returned, as glibc does)
ReallocOutcomes(s, old, n) ==
    IF old = NULL
    THEN {[mode |-> "fail", addr |-> NULL]}
         \cup {[mode |-> "move", addr |-> a] : a \in AllocChoices(s)}
    ELSE {[mode |-> "fail", addr |-> NULL]}
         \cup {[mode |-> "inplace", addr |-> Addr(old)]}
         \cup {[mode |-> "move", addr |-> a] : a \in AllocChoices(s) \ {Addr(old)}}
         \cup (IF n = 0 THEN {[mode |-> "free_null", addr |-> NULL]} ELSE {})

Resized(q, n) == [i \in 1..n |-> IF i <= Len(q) THEN q[i] ELSE 0]

\* mutant: the old block is not freed when the block moves
ReallocMove_Leaky(s, old, n, addr) ==
    LET oldBytes == IF old = NULL THEN <<>> ELSE s.heap[Addr(old)].bytes
        s1 == IF old = NULL THEN [s EXCEPT !.cnt = @ + 1] ELSE s
    IN [s1 EXCEPT !.heap[addr] = [live |-> TRUE, bytes |-> Resized(oldBytes, n)]]

\* realloc moved the block: a new block at addr holds the old bytes, the old
\* block is freed
ReallocMove(s, old, n, addr) ==
    LET oldBytes == IF old = NULL THEN <<>> ELSE s.heap[Addr(old)].bytes
        s1 == IF old = NULL THEN [s EXCEPT !.cnt = @ + 1]
              ELSE Invalidate(s, Addr(old))
    IN [s1 EXCEPT !.heap[addr] = [live |-> TRUE, bytes |-> Resized(oldBytes, n)]]

Any_realloc(s, old, n, oc) ==
    LET ub == IF old # NULL /\ (IsStale(old) \/ ~s.heap[old].live)
              THEN "use_after_free" ELSE "none"
        oldBytes == IF old = NULL THEN <<>> ELSE s.heap[Addr(old)].bytes
    IN CASE oc.mode = "fail" ->
              [s |-> s, ptr |-> NULL, ub |-> ub]
         [] oc.mode = "free_null" ->
              [s |-> Invalidate(s, Addr(old)), ptr |-> NULL, ub |-> ub]
         [] oc.mode = "inplace" ->
              [s |-> [s EXCEPT !.heap[Addr(old)] =
                        [live |-> TRUE, bytes |-> Resized(oldBytes, n)]],
               ptr |-> Addr(old), ub |-> ub]
         [] OTHER ->
              [s |-> ReallocMove(s, old, n, oc.addr), ptr |-> oc.addr, ub |-> ub]

\* ------------------------------------------------------------ the Any API
Any_IsNull(self) == self = NULL \/ self = Any_null

\* mutant: the value buffer is not freed
Any_Destroy_KeepsBuffer(s, self) ==
    IF Any_IsNull(self) THEN [s |-> s, ret |-> NULL, ub |-> "none"]
    ELSE LET s1 == [s EXCEPT !.box[self].type = 0,
                             !.box[self].size = 0,
                             !.box[self].value = NULL]
             s2 == IF ~s1.box[self].is_user_defined
                   THEN [s1 EXCEPT !.hdr[self] = "free",
                                   !.box[self] = ZeroBox,
                                   !.cnt = @ - 1]
                   ELSE s1
         IN [s |-> s2, ret |-> NULL, ub |-> "none"]

Any_Destroy(s, self) ==
    IF Any_IsNull(self) THEN [s |-> s, ret |-> NULL, ub |-> "none"]
    ELSE LET f == Any_free(s, s.box[self].value)
             s1 == [f.s EXCEPT !.box[self].type = 0,
                               !.box[self].size = 0,
                               !.box[self].value = NULL]
             s2 == IF ~s1.box[self].is_user_defined
                   THEN [s1 EXCEPT !.hdr[self] = "free",
                                   !.box[self] = ZeroBox,
                                   !.cnt = @ - 1]
                   ELSE s1
         IN [s |-> s2, ret |-> NULL, ub |-> f.ub]

\* h: the caller's storage, NULL for a NULL self; a: what Any_calloc returned;
\* hv: the has_value the uninitialised storage happened to hold
Any_Init(s, h, type, size, a, hv) ==
    IF h = NULL THEN [s |-> s, ret |-> NULL, ub |-> "none"]
    ELSE LET c == Any_calloc(s, a, size)
             s1 == [c.s EXCEPT !.hdr[h] = "live",
                               !.box[h] = [type |-> type, size |-> size,
                                           value |-> c.ptr, has_value |-> hv,
                                           is_user_defined |-> TRUE]]
         IN IF c.ptr = NULL
            THEN [s |-> Any_Destroy(s1, h).s, ret |-> NULL, ub |-> "none"]
            ELSE [s |-> s1, ret |-> h, ub |-> "none"]

\* mutant: the header is not freed when the buffer allocation fails
Any_Create_NoCleanup(s, h, type, size, a) ==
    IF h = NULL THEN [s |-> s, ret |-> NULL, ub |-> "none"]
    ELSE LET s0 == [s EXCEPT !.hdr[h] = "live", !.box[h] = ZeroBox,
                             !.cnt = @ + 1]
             c == Any_calloc(s0, a, size)
             s1 == [c.s EXCEPT !.box[h].type = type,
                               !.box[h].size = size,
                               !.box[h].is_user_defined = FALSE,
                               !.box[h].value = c.ptr]
         IN IF c.ptr = NULL
            THEN [s |-> s1, ret |-> NULL, ub |-> "none"]
            ELSE [s |-> s1, ret |-> h, ub |-> "none"]

\* mutant: no buffer is allocated for size 0
Any_Create_NullForZero(s, h, type, size, a) ==
    IF h = NULL THEN [s |-> s, ret |-> NULL, ub |-> "none"]
    ELSE LET s0 == [s EXCEPT !.hdr[h] = "live", !.box[h] = ZeroBox,
                             !.cnt = @ + 1]
             c == IF size = 0 THEN [s |-> s0, ptr |-> NULL]
                  ELSE Any_calloc(s0, a, size)
             s1 == [c.s EXCEPT !.box[h].type = type,
                               !.box[h].size = size,
                               !.box[h].is_user_defined = FALSE,
                               !.box[h].value = c.ptr]
         IN IF c.ptr = NULL /\ size # 0
            THEN [s |-> Any_Destroy(s1, h).s, ret |-> NULL, ub |-> "none"]
            ELSE [s |-> s1, ret |-> h, ub |-> "none"]

\* h: the header Any_calloc returned, NULL when it failed; a: likewise for
\* the value buffer
Any_Create(s, h, type, size, a) ==
    IF h = NULL THEN [s |-> s, ret |-> NULL, ub |-> "none"]
    ELSE LET s0 == [s EXCEPT !.hdr[h] = "live", !.box[h] = ZeroBox,
                             !.cnt = @ + 1]
             c == Any_calloc(s0, a, size)
             s1 == [c.s EXCEPT !.box[h].type = type,
                               !.box[h].size = size,
                               !.box[h].is_user_defined = FALSE,
                               !.box[h].value = c.ptr]
         IN IF c.ptr = NULL
            THEN [s |-> Any_Destroy(s1, h).s, ret |-> NULL, ub |-> "none"]
            ELSE [s |-> s1, ret |-> h, ub |-> "none"]

\* mutant: the box is cleared whether or not it holds a value
Any_Reset_Unconditional(s, self) ==
    IF Any_IsNull(self) THEN [s |-> s, ret |-> NULL, ub |-> "none"]
    ELSE LET f == Any_free(s, s.box[self].value)
         IN [s |-> [f.s EXCEPT !.box[self].value = NULL,
                               !.box[self].has_value = FALSE,
                               !.box[self].size = 0,
                               !.box[self].type = 0],
             ret |-> NULL, ub |-> f.ub]

Any_Reset(s, self) ==
    IF Any_IsNull(self) THEN [s |-> s, ret |-> NULL, ub |-> "none"]
    ELSE IF s.box[self].has_value
         THEN LET f == Any_free(s, s.box[self].value)
              IN [s |-> [f.s EXCEPT !.box[self].value = NULL,
                                    !.box[self].has_value = FALSE,
                                    !.box[self].size = 0,
                                    !.box[self].type = 0],
                  ret |-> NULL, ub |-> f.ub]
         ELSE [s |-> s, ret |-> NULL, ub |-> "none"]

\* mutant: the source pointer is not checked
Set_Rejects_NoSrcCheck(self, src) == Any_IsNull(self)

\* the guard of Any_Set
Set_Rejects(self, src) == src.null \/ Any_IsNull(self)

\* src: [null, bytes], the caller's source pointer and the size bytes behind
\* it; oc: the outcome of the realloc, read only when the size changes
Any_Set(s, self, type, src, size, oc) ==
    IF Set_Rejects(self, src) THEN [s |-> s, ret |-> NULL, ub |-> "none"]
    ELSE LET resize == s.box[self].size # size
             r == IF resize
                  THEN Any_realloc(s, s.box[self].value, size, oc)
                  ELSE [s |-> s, ptr |-> s.box[self].value, ub |-> "none"]
         IN IF resize /\ r.ptr = NULL
            THEN [s |-> r.s, ret |-> NULL, ub |-> r.ub]
            ELSE LET s1 == [r.s EXCEPT !.box[self].size = size,
                                       !.box[self].value = r.ptr]
                     v == s1.box[self].value
                     n == s1.box[self].size
                     s2 == MemcpyTo(s1, v, src.bytes, n)
                 IN [s |-> [s2 EXCEPT !.box[self].type = type,
                                      !.box[self].has_value = TRUE],
                     ret |-> self,
                     ub |-> Ub2(r.ub, AccessUb(s1, v, n))]

Any_Get(s, self) == IF Any_IsNull(self) THEN NULL ELSE s.box[self].value
Any_Size(s, self) == IF Any_IsNull(self) THEN 0 ELSE s.box[self].size
Any_Type(s, self) == IF Any_IsNull(self) THEN 0 ELSE s.box[self].type
Any_HasValue(s, self) ==
    IF Any_IsNull(self) THEN FALSE ELSE s.box[self].has_value
Any_IsEmpty(s, self) ==
    self # NULL /\ (~Fld(s, self).has_value \/ Fld(s, self).size = 0
                    \/ self = Any_null)
Any_IsUserDefined(s, self) ==
    IF Any_IsNull(self) THEN FALSE ELSE s.box[self].is_user_defined

\* memcmp(p, q, n) = 0
MemEq(s, p, q, n) == ReadBytes(s, p, n) = ReadBytes(s, q, n)

Any_Equals(s, self, other) ==
    IF self = NULL \/ other = NULL THEN FALSE
    ELSE IF self = other THEN TRUE
    ELSE /\ Fld(s, self).has_value = Fld(s, other).has_value
         /\ Fld(s, self).type = Fld(s, other).type
         /\ Fld(s, self).size = Fld(s, other).size
         /\ MemEq(s, Fld(s, self).value, Fld(s, other).value, Fld(s, self).size)

\* mutant: a box that holds no value is copied too
Copy_Rejects_NoValueCheck(s, self) == Any_IsNull(self)

\* mutant: a box of length 0 is not copied either
Copy_Rejects_ZeroLength(s, self) ==
    Any_IsNull(self) \/ ~s.box[self].has_value \/ s.box[self].size = 0

\* the guard of Any_Copy
Copy_Rejects(s, self) == Any_IsNull(self) \/ ~s.box[self].has_value

\* the undefined behaviour the memcmp of Any_Equals runs into; && reaches it
\* only when flag, tag and length agree
Equals_Ub(s, self, other) ==
    IF self = NULL \/ other = NULL \/ self = other THEN "none"
    ELSE IF /\ Fld(s, self).has_value = Fld(s, other).has_value
            /\ Fld(s, self).type = Fld(s, other).type
            /\ Fld(s, self).size = Fld(s, other).size
         THEN Ub2(AccessUb(s, Fld(s, self).value, Fld(s, self).size),
                  AccessUb(s, Fld(s, other).value, Fld(s, self).size))
         ELSE "none"

\* h, a: what the two Any_calloc calls of Any_Create returned
Any_Copy(s, self, h, a) ==
    IF Copy_Rejects(s, self)
    THEN [s |-> s, ret |-> NULL, ub |-> "none"]
    ELSE LET me == s.box[self]
             c == Any_Create(s, h, me.type, me.size, a)
         IN IF c.ret = NULL THEN [s |-> c.s, ret |-> NULL, ub |-> "none"]
            ELSE LET v == c.s.box[c.ret].value
                     s1 == MemcpyTo(c.s, v,
                                    ReadBytes(c.s, me.value, me.size), me.size)
                 IN [s |-> [s1 EXCEPT !.box[c.ret].has_value = TRUE],
                     ret |-> c.ret,
                     ub |-> Ub2(AccessUb(c.s, me.value, me.size),
                                AccessUb(c.s, v, me.size))]

\* mutant: the header ownership flag travels with the value
Move_Transfer_WithOwner(s, dest, src) ==
    [s EXCEPT !.box[dest].type = s.box[src].type,
              !.box[dest].size = s.box[src].size,
              !.box[dest].value = s.box[src].value,
              !.box[dest].has_value = s.box[src].has_value,
              !.box[dest].is_user_defined = s.box[src].is_user_defined]

\* "Move data from src to dest"
Move_Transfer(s, dest, src) ==
    [s EXCEPT !.box[dest].type = s.box[src].type,
              !.box[dest].size = s.box[src].size,
              !.box[dest].value = s.box[src].value,
              !.box[dest].has_value = s.box[src].has_value]

\* mutant: src keeps its buffer pointer
Move_ClearSrc_KeepsValue(s, src) ==
    [s EXCEPT !.box[src].type = 0,
              !.box[src].size = 0,
              !.box[src].has_value = FALSE]

\* "Clear src"
Move_ClearSrc(s, src) ==
    [s EXCEPT !.box[src].type = 0,
              !.box[src].size = 0,
              !.box[src].value = NULL,
              !.box[src].has_value = FALSE]

\* mutant: src is not checked; a null src is read as the all-zero sentinel
Any_Move_NoSrcCheck(s, dest, src) ==
    IF Any_IsNull(dest)
    THEN [s |-> s, ret |-> NULL, ub |-> "none"]
    ELSE LET f == Any_free(s, s.box[dest].value)
         IN IF Any_IsNull(src)
            THEN [s |-> [f.s EXCEPT !.box[dest].type = 0,
                                    !.box[dest].size = 0,
                                    !.box[dest].value = NULL,
                                    !.box[dest].has_value = FALSE],
                  ret |-> NULL,
                  ub |-> IF src = NULL THEN "null_deref" ELSE "const_write"]
            ELSE [s |-> Move_ClearSrc(Move_Transfer(f.s, dest, src), src),
                  ret |-> NULL, ub |-> f.ub]

Any_Move(s, dest, src) ==
    IF Any_IsNull(dest) \/ Any_IsNull(src)
    THEN [s |-> s, ret |-> NULL, ub |-> "none"]
    ELSE LET f == Any_free(s, s.box[dest].value)
         IN [s |-> Move_ClearSrc(Move_Transfer(f.s, dest, src), src),
             ret |-> NULL, ub |-> f.ub]

\* mutant: the populated flags are not exchanged
Any_Swap_NoFlag(s, self, other) ==
    IF Any_IsNull(self) \/ Any_IsNull(other)
    THEN [s |-> s, ret |-> NULL, ub |-> "none"]
    ELSE LET temp == s.box[self]
             s1 == [s EXCEPT !.box[self].type = s.box[other].type,
                             !.box[self].size = s.box[other].size,
                             !.box[self].value = s.box[other].value]
             s2 == [s1 EXCEPT !.box[other].type = temp.type,
                              !.box[other].size = temp.size,
                              !.box[other].value = temp.value]
         IN [s |-> s2, ret |-> NULL, ub |-> "none"]

\* mutant: no temporaries, other is assigned from self after self was
\* overwritten
Any_Swap_NoTemp(s, self, other) ==
    IF Any_IsNull(self) \/ Any_IsNull(other)
    THEN [s |-> s, ret |-> NULL, ub |-> "none"]
    ELSE LET s1 == [s EXCEPT !.box[self].type = s.box[other].type,
                             !.box[self].size = s.box[other].size,
                             !.box[self].value = s.box[other].value,
                             !.box[self].has_value = s.box[other].has_value]
             s2 == [s1 EXCEPT !.box[other].type = s1.box[self].type,
                              !.box[other].size = s1.box[self].size,
                              !.box[other].value = s1.box[self].value,
                              !.box[other].has_value = s1.box[self].has_value]
         IN [s |-> s2, ret |-> NULL, ub |-> "none"]

Any_Swap(s, self, other) ==
    IF Any_IsNull(self) \/ Any_IsNull(other)
    THEN [s |-> s, ret |-> NULL, ub |-> "none"]
    ELSE LET temp == s.box[self]
             s1 == [s EXCEPT !.box[self].type = s.box[other].type,
                             !.box[self].size = s.box[other].size,
                             !.box[self].value = s.box[other].value,
                             !.box[self].has_value = s.box[other].has_value]
             s2 == [s1 EXCEPT !.box[other].type = temp.type,
                              !.box[other].size = temp.size,
                              !.box[other].value = temp.value,
                              !.box[other].has_value = temp.has_value]
         IN [s |-> s2, ret |-> NULL, ub |-> "none"]

\* ------------------------------------------------------- the state machine
NoSrc == [null |-> TRUE, bytes |-> <<>>]
Srcs == {NoSrc} \cup {[null |-> FALSE, bytes |-> q] : q \in Payloads}
NoOutcome == [mode |-> "none", addr |-> NULL]

\* handles a caller can pass: the boxes it holds, NULL and the sentinel
Handles(s) == LiveBoxes(s) \cup {NULL, Any_null}

\* the outcomes the realloc inside Any_Set(self, _, src, size) can have,
\* NoOutcome when the call does not reach it
SetOutcomes(s, self, src, size) ==
    IF ~Set_Rejects(self, src) /\ self \in Boxes /\ s.box[self].size # size
    THEN ReallocOutcomes(s, s.box[self].value, size)
    ELSE {NoOutcome}

\* One call: the state becomes r.s.  kind and self say which call it was, for
\* copyOf.  Behaviour after a call that ran into undefined
\* behaviour is not followed: that state, with fault set, is final.
Step(r, kind, self) ==
    /\ fault = "none"
    /\ fault' = r.ub
    /\ box' = r.s.box
    /\ hdr' = r.s.hdr
    /\ heap' = r.s.heap
    /\ g_any_alloc_count' = r.s.cnt
    /\ copyOf' = [h \in Boxes |->
                  IF kind = "copy" /\ r.ret = h /\ h # NULL THEN self
                  ELSE IF r.s.hdr[h] = "live" /\ copyOf[h] # NULL
                          /\ r.s.hdr[copyOf[h]] = "live" THEN copyOf[h]
                  ELSE NULL]

Init ==
    /\ box = [h \in Boxes |-> ZeroBox]
    /\ hdr = [h \in Boxes |-> "free"]
    /\ heap = [a \in Addrs |-> DeadBuf]
    /\ g_any_alloc_count = 0
    /\ fault = "none"
    /\ copyOf = [h \in Boxes |-> NULL]

DoInit ==
    \E h \in HeaderChoices(Cur) \cup {NULL}, type \in TypeIDs, size \in Sizes,
       a \in AllocChoices(Cur) \cup {NULL}, hv \in BOOLEAN :
        Step(Any_Init(Cur, h, type, size, a, hv), "init", h)

DoCreate ==
    \E h \in HeaderChoices(Cur) \cup {NULL}, type \in TypeIDs, size \in Sizes,
       a \in AllocChoices(Cur) \cup {NULL} :
        Step(Any_Create(Cur, h, type, size, a), "create", NULL)

DoReset ==
    \E self \in Handles(Cur) :
        Step(Any_Reset(Cur, self), "reset", self)

DoSet ==
    \E self \in Handles(Cur), type \in TypeIDs, src \in Srcs :
        \E oc \in SetOutcomes(Cur, self, src, Len(src.bytes)) :
            Step(Any_Set(Cur, self, type, src, Len(src.bytes), oc), "set", self)

DoCopy ==
    \E self \in Handles(Cur), h \in HeaderChoices(Cur) \cup {NULL},
       a \in AllocChoices(Cur) \cup {NULL} :
        Step(Any_Copy(Cur, self, h, a), "copy", self)

DoMove ==
    \E dest \in Handles(Cur), src \in Handles(Cur) :
        Step(Any_Move(Cur, dest, src), "move", dest)

DoSwap ==
    \E self \in Handles(Cur), other \in Handles(Cur) :
        Step(Any_Swap(Cur, self, other), "swap", self)

DoDestroy ==
    \E self \in Handles(Cur) :
        Step(Any_Destroy(Cur, self), "destroy", self)

Next ==
    \/ DoInit
    \/ DoCreate
    \/ DoReset
    \/ DoSet
    \/ DoCopy
    \/ DoMove
    \/ DoSwap
    \/ DoDestroy

Spec == Init /\ [][Next]_vars

TypeOK ==
    /\ \A h \in Boxes : hdr[h] \in {"free", "live"}
    /\ \A h \in Boxes : box[h].size \in Sizes /\ Addr(box[h].value) \in Addrs \cup {NULL}
    /\ \A a \in Addrs : Len(heap[a].bytes) <= MaxLen

\* ------------------------------------------------------------- the claims
\* A claim about what a call does is stated over every call the program can
\* make in a reachable state: the call's result is r, the state after it r.s.

RealSrcs == Srcs \ {NoSrc}

\* box h owns a live buffer
Owned(s, h) ==
    /\ s.box[h].value # NULL
    /\ ~IsStale(s.box[h].value)
    /\ s.heap[s.box[h].value].live

\* box h is as successful calls leave a box: it has no buffer and size 0, or
\* it owns a live buffer of size bytes
InStep(s, h) ==
    \/ s.box[h].value = NULL /\ s.box[h].size = 0
    \/ Owned(s, h) /\ Len(s.heap[s.box[h].value].bytes) = s.box[h].size

\* box h is as Any_Create returns a box
AsCreated(s, h) ==
    /\ s.hdr[h] = "live"
    /\ ~s.box[h].has_value
    /\ ~s.box[h].is_user_defined
    /\ Owned(s, h)
    /\ s.heap[s.box[h].value].bytes = Zeros(s.box[h].size)

\* what a caller reads through Any_Get over Any_Size bytes
View(s, h) == ReadBytes(s, Any_Get(s, h), Any_Size(s, h))

\* C1: a successful Set(box, T, P, L) on a box as Create returned it leaves
\* Get reading exactly P, the tag T, the size L and HasValue true.
C1_RoundTrip ==
    fault = "none" =>
    \A self \in LiveBoxes(Cur), type \in TypeIDs, src \in RealSrcs :
        AsCreated(Cur, self) =>
        \A oc \in SetOutcomes(Cur, self, src, Len(src.bytes)) :
            LET r == Any_Set(Cur, self, type, src, Len(src.bytes), oc)
            IN r.ret # NULL =>
                /\ r.ret = self
                /\ r.ub = "none"
                /\ AccessUb(r.s, Any_Get(r.s, self), Len(src.bytes)) = "none"
                /\ View(r.s, self) = src.bytes
                /\ Any_Type(r.s, self) = type
                /\ Any_Size(r.s, self) = Len(src.bytes)
                /\ Any_HasValue(r.s, self)

\* a created box of one size takes a payload of another size and a new tag
C1_Witness ==
    /\ fault = "none"
    /\ \E self \in LiveBoxes(Cur), src \in RealSrcs :
        /\ AsCreated(Cur, self)
        /\ box[self].size = 1 /\ box[self].type = 0
        /\ src.bytes = <<1, 1>>
        /\ \E oc \in SetOutcomes(Cur, self, src, 2) :
              LET r == Any_Set(Cur, self, 1, src, 2, oc)
              IN r.ret = self /\ oc.mode = "move" /\ View(r.s, self) = <<1, 1>>

C3_SetRejects ==
    fault = "none" =>
    \A self \in Handles(Cur), type \in TypeIDs, src \in Srcs :
        (Any_IsNull(self) \/ src.null) =>
        \A oc \in SetOutcomes(Cur, self, src, Len(src.bytes)) :
            LET r == Any_Set(Cur, self, type, src, Len(src.bytes), oc)
            IN r.ret = NULL /\ r.s = Cur /\ r.ub = "none"

\* a box holds a value of another tag and size than the rejected Set's
C3_Witness ==
    /\ fault = "none"
    /\ \E self \in LiveBoxes(Cur) :
          /\ box[self].has_value /\ box[self].type = 0 /\ box[self].size = 2
          /\ Any_Set(Cur, self, 1, NoSrc, 0, NoOutcome).ret = NULL
          /\ Any_Set(Cur, Any_null, 1, [null |-> FALSE, bytes |-> <<1>>], 1,
                     NoOutcome).s = Cur

\* C4: a box is in step when Create, Init or Copy returns it, and a
\* successful Set of another length on a box that is in step leaves the size
\* equal to the new length, Get reading the new payload, and the box owning
\* exactly one buffer: the old buffer is released, nothing else is allocated
\* or freed, and the box is in step again.
C4_Resize ==
    fault = "none" =>
    /\ \A h \in HeaderChoices(Cur), type \in TypeIDs, size \in Sizes,
          a \in AllocChoices(Cur), hv \in BOOLEAN :
          /\ Any_Create(Cur, h, type, size, a).ret = h
          /\ InStep(Any_Create(Cur, h, type, size, a).s, h)
          /\ InStep(Any_Init(Cur, h, type, size, a, hv).s, h)
          /\ \A self \in LiveBoxes(Cur) :
                Any_Copy(Cur, self, h, a).ret # NULL =>
                    InStep(Any_Copy(Cur, self, h, a).s, h)
    /\ \A self \in LiveBoxes(Cur), type \in TypeIDs, src \in RealSrcs :
        (InStep(Cur, self) /\ box[self].size # Len(src.bytes)) =>
        \A oc \in SetOutcomes(Cur, self, src, Len(src.bytes)) :
            LET r == Any_Set(Cur, self, type, src, Len(src.bytes), oc)
                old == box[self].value
                new == r.s.box[self].value
            IN r.ret # NULL =>
                /\ r.ub = "none"
                /\ Any_Size(r.s, self) = Len(src.bytes)
                /\ View(r.s, self) = src.bytes
                /\ Owned(r.s, self) /\ InStep(r.s, self)
                /\ new # old => (old # NULL => ~r.s.heap[old].live)
                /\ LiveAddrs(r.s) = (LiveAddrs(Cur) \ {old}) \cup {new}
                /\ \A h \in LiveBoxes(Cur) \ {self} :
                      r.s.box[h].value # new \/ box[h].value = old

\* a populated one-byte box grows to two bytes in a block at a new address
C4_Witness ==
    /\ fault = "none"
    /\ \E self \in LiveBoxes(Cur), a \in AllocChoices(Cur) :
          /\ InStep(Cur, self) /\ box[self].has_value /\ box[self].size = 1
          /\ Owned(Cur, self) /\ a # box[self].value
          /\ LET r == Any_Set(Cur, self, 0, [null |-> FALSE, bytes |-> <<1, 1>>],
                              2, [mode |-> "move", addr |-> a])
             IN r.ret = self /\ r.s.box[self].value = a
                /\ ~r.s.heap[box[self].value].live

\* tag, length, populated flag and bytes of box h are the same in s and t
SameValue(s, t, h) ==
    /\ t.hdr[h] = "live"
    /\ t.box[h].type = s.box[h].type
    /\ t.box[h].size = s.box[h].size
    /\ t.box[h].has_value = s.box[h].has_value
    /\ View(t, h) = View(s, h)
    /\ AccessUb(t, Any_Get(t, h), Any_Size(t, h))
          = AccessUb(s, Any_Get(s, h), Any_Size(s, h))

\* C5: Copy of a populated box returns, when both allocations succeed, a new
\* box with the same tag, length and bytes, populated and equal to the
\* original, in a header and a buffer of its own.
C5_Copy ==
    fault = "none" =>
    \A self \in LiveBoxes(Cur), h \in HeaderChoices(Cur), a \in AllocChoices(Cur) :
        box[self].has_value =>
        LET r == Any_Copy(Cur, self, h, a)
        IN /\ r.ret = h /\ h # self
           /\ r.s.hdr[h] = "live"
           /\ r.ub = "none"
           /\ Any_Type(r.s, h) = box[self].type
           /\ Any_Size(r.s, h) = box[self].size
           /\ Any_HasValue(r.s, h)
           /\ View(r.s, h) = View(Cur, self)
           /\ Len(View(r.s, h)) = box[self].size
           /\ Any_Equals(r.s, self, h)
           /\ Owned(r.s, h)
           /\ Addr(r.s.box[h].value) # Addr(r.s.box[self].value)

\* the calls on box c (with d, when they take two boxes) a caller can make
\* that do not name box a: Set, Reset, Move, Swap and Destroy
CallsOn(s, c, a) ==
    {Any_Reset(s, c), Any_Destroy(s, c)}
    \cup UNION {{Any_Set(s, c, type, src, Len(src.bytes), oc) :
                    oc \in SetOutcomes(s, c, src, Len(src.bytes))} :
                        type \in TypeIDs, src \in Srcs}
    \cup UNION {{Any_Move(s, c, d), Any_Move(s, d, c),
                 Any_Swap(s, c, d), Any_Swap(s, d, c)} :
                    d \in Handles(s) \ {a}}

\* C6: after c = Copy(a), a Set, Reset, Move, Swap with a third box or
\* Destroy applied to c leaves a's tag, length, bytes and populated flag
\* unchanged, and one applied to a leaves c unchanged.
C6_CopyIndependence ==
    fault = "none" =>
    \A c \in LiveBoxes(Cur) :
        copyOf[c] # NULL =>
        /\ \A r \in CallsOn(Cur, c, copyOf[c]) : SameValue(Cur, r.s, copyOf[c])
        /\ \A r \in CallsOn(Cur, copyOf[c], c) : SameValue(Cur, r.s, c)

\* C7: Copy of NULL, of Any_null or of a live box that holds no value
\* returns NULL, allocates nothing and leaves everything unchanged.
C7_CopyRejects ==
    fault = "none" =>
    \A self \in Handles(Cur), h \in HeaderChoices(Cur) \cup {NULL},
       a \in AllocChoices(Cur) \cup {NULL} :
        (Any_IsNull(self) \/ ~Any_HasValue(Cur, self)) =>
        LET r == Any_Copy(Cur, self, h, a)
        IN r.ret = NULL /\ r.s = Cur /\ r.ub = "none"

\* a created box that owns a buffer but holds no value is not copied
\* although both allocations could succeed
C7_Witness ==
    /\ fault = "none"
    /\ \E self \in LiveBoxes(Cur), h \in HeaderChoices(Cur), a \in AllocChoices(Cur) :
          /\ AsCreated(Cur, self) /\ box[self].size = 2
          /\ Any_Copy(Cur, self, h, a).ret = NULL
          /\ Any_Copy(Cur, Any_null, h, a).s = Cur

\* C8: after Move(dest, src) on two distinct live boxes, src has no value,
\* tag 0, length 0 and no buffer, and dest has the tag, length, bytes and
\* populated flag src had before the call.
C8_Move ==
    fault = "none" =>
    \A dest \in LiveBoxes(Cur) : \A src \in LiveBoxes(Cur) \ {dest} :
        LET r == Any_Move(Cur, dest, src)
        IN /\ ~Any_HasValue(r.s, src)
           /\ Any_Type(r.s, src) = 0
           /\ Any_Size(r.s, src) = 0
           /\ Any_Get(r.s, src) = NULL
           /\ Any_Type(r.s, dest) = box[src].type
           /\ Any_Size(r.s, dest) = box[src].size
           /\ Any_HasValue(r.s, dest) = box[src].has_value
           /\ View(r.s, dest) = View(Cur, src)
           /\ AccessUb(r.s, Any_Get(r.s, dest), Any_Size(r.s, dest))
                 = AccessUb(Cur, Any_Get(Cur, src), Any_Size(Cur, src))

\* C9: Move(dest, src) on distinct live boxes allocates nothing and copies
\* no byte: dest's buffer afterwards is the buffer src had, the buffer dest
\* had is freed exactly once, and src's buffer is not freed.
C9_MoveTransfers ==
    fault = "none" =>
    \A dest \in LiveBoxes(Cur) : \A src \in LiveBoxes(Cur) \ {dest} :
        LET r == Any_Move(Cur, dest, src)
            old == box[dest].value
            moved == box[src].value
        IN /\ r.s.box[dest].value = moved
           /\ r.ub = "none"
           /\ old # NULL => heap[Addr(old)].live /\ ~r.s.heap[Addr(old)].live
           /\ LiveAddrs(r.s) = LiveAddrs(Cur) \ {Addr(old)}
           /\ r.s.cnt = g_any_alloc_count - (IF old = NULL THEN 0 ELSE 1)
           /\ moved # NULL => r.s.heap[Addr(moved)] = heap[Addr(moved)]

\* C10: after Any_Move(dest, src) on two live boxes, Any_IsNull(src) is true.
C10_MovedFromIsNull ==
    fault = "none" =>
    \A dest \in LiveBoxes(Cur) : \A src \in LiveBoxes(Cur) \ {dest} :
        LET r == Any_Move(Cur, dest, src)
        IN r.s.hdr[src] = "live" => Any_IsNull(src)

\* box h is live and empty: no value, tag 0, length 0, no buffer
Emptied(s, h) ==
    /\ s.hdr[h] = "live"
    /\ ~s.box[h].has_value
    /\ s.box[h].type = 0
    /\ s.box[h].size = 0
    /\ s.box[h].value = NULL

\* the calls that empty box self: Reset when it holds a value, and every Move
\* that has it as source
EmptyingCalls(s, self) ==
    (IF s.box[self].has_value THEN {Any_Reset(s, self)} ELSE {})
    \cup {Any_Move(s, dest, self) : dest \in LiveBoxes(s)}

\* the sources of one byte or more
LongSrcs == {src \in RealSrcs : Len(src.bytes) > 0}

Carried(b) ==
    [type |-> b.type, size |-> b.size, value |-> b.value,
     has_value |-> b.has_value]

\* C12: Swap(a, b) on two live boxes leaves a with b's tag, length, buffer
\* pointer and populated flag and b with a's, and changes nothing else: no
\* buffer is allocated, freed or written, no other box changes, and each box
\* reads the bytes the other read before.
C12_Swap ==
    fault = "none" =>
    \A a \in LiveBoxes(Cur), b \in LiveBoxes(Cur) :
        LET r == Any_Swap(Cur, a, b)
        IN /\ r.ub = "none"
           /\ Carried(r.s.box[a]) = Carried(box[b])
           /\ Carried(r.s.box[b]) = Carried(box[a])
           /\ r.s.box[a].is_user_defined = box[a].is_user_defined
           /\ r.s.box[b].is_user_defined = box[b].is_user_defined
           /\ \A h \in Boxes \ {a, b} : r.s.box[h] = box[h]
           /\ r.s.heap = heap /\ r.s.hdr = hdr
           /\ r.s.cnt = g_any_alloc_count
           /\ View(r.s, a) = View(Cur, b) /\ View(r.s, b) = View(Cur, a)
           /\ Any_HasValue(r.s, a) = box[b].has_value
           /\ Any_HasValue(r.s, b) = box[a].has_value

\* an unpopulated box and a populated box of another tag and length are
\* swapped
C12_Witness ==
    /\ fault = "none"
    /\ \E a \in LiveBoxes(Cur), b \in LiveBoxes(Cur) :
          /\ ~box[a].has_value /\ box[b].has_value
          /\ box[a].type # box[b].type /\ box[a].size # box[b].size
          /\ Owned(Cur, a) /\ Owned(Cur, b)
          /\ View(Cur, b) = <<1, 1>>
          /\ View(Any_Swap(Cur, a, b).s, a) = <<1, 1>>

\* C13: Swap(a, b) followed by Swap(a, b) restores both boxes, and the whole
\* state, to what they were before the first call.
C13_SwapTwice ==
    fault = "none" =>
    \A a \in LiveBoxes(Cur), b \in LiveBoxes(Cur) :
        LET r == Any_Swap(Cur, a, b)
            q == Any_Swap(r.s, a, b)
        IN r.ub = "none" /\ q.ub = "none" /\ q.s = Cur

\* two boxes that differ in tag, length, bytes and populated flag are swapped
\* twice, the first swap changing both
C13_Witness ==
    /\ fault = "none"
    /\ \E a \in LiveBoxes(Cur), b \in LiveBoxes(Cur) :
          /\ box[a].has_value /\ ~box[b].has_value
          /\ box[a].type # box[b].type /\ box[a].size # box[b].size
          /\ View(Cur, a) # View(Cur, b)
          /\ Any_Swap(Cur, a, b).s # Cur
          /\ Any_Swap(Any_Swap(Cur, a, b).s, a, b).s = Cur

\* C14: Equals(a, b) on two distinct live boxes reads no invalid memory and
\* is true exactly when the boxes have the same populated flag, the same tag,
\* the same length and the same bytes over that length.
C14_Equals ==
    fault = "none" =>
    \A a \in LiveBoxes(Cur) : \A b \in LiveBoxes(Cur) \ {a} :
        /\ Equals_Ub(Cur, a, b) = "none"
        /\ Any_Equals(Cur, a, b) <=>
              /\ Any_HasValue(Cur, a) = Any_HasValue(Cur, b)
              /\ Any_Type(Cur, a) = Any_Type(Cur, b)
              /\ Any_Size(Cur, a) = Any_Size(Cur, b)
              /\ View(Cur, a) = View(Cur, b)

\* C15: Equals(a, a) is true for every live box a, and Equals(a, b) equals
\* Equals(b, a), reading no invalid memory, for every pair of handles.
C15_EqualsReflSym ==
    fault = "none" =>
    /\ \A a \in LiveBoxes(Cur) :
          Any_Equals(Cur, a, a) /\ Equals_Ub(Cur, a, a) = "none"
    /\ \A a \in Handles(Cur), b \in Handles(Cur) :
          /\ Any_Equals(Cur, a, b) = Any_Equals(Cur, b, a)
          /\ Equals_Ub(Cur, a, b) = "none"

\* the null handles
Nulls == {NULL, Any_null}

\* C16: Equals is false whenever either operand is NULL or Any_null,
\* whatever the other operand is.
C16_EqualsNull ==
    fault = "none" =>
    \A n \in Nulls, x \in Handles(Cur) :
        ~Any_Equals(Cur, n, x) /\ ~Any_Equals(Cur, x, n)

\* the call returned nothing, ran into no undefined behaviour and left state
\* s as it was
NoEffect(r, s) == r.ret = NULL /\ r.ub = "none" /\ r.s = s

\* C17: every operation called with NULL or Any_null in a handle position
\* returns its neutral result and changes nothing: Get NULL, size 0, tag 0,
\* HasValue false, Copy NULL, Set failure, and Reset, Move, Swap and Destroy
\* leave every box, buffer, header and the counter as they were, whatever
\* the other arguments are; the sentinel reads tag 0, length 0, no buffer,
\* unpopulated.
C17_NullSafety ==
    fault = "none" =>
    \A n \in Nulls :
        /\ Any_Get(Cur, n) = NULL
        /\ Any_Size(Cur, n) = 0
        /\ Any_Type(Cur, n) = 0
        /\ ~Any_HasValue(Cur, n)
        /\ Fld(Cur, Any_null) = ZeroBox
        /\ NoEffect(Any_Reset(Cur, n), Cur)
        /\ NoEffect(Any_Destroy(Cur, n), Cur)
        /\ \A h \in HeaderChoices(Cur) \cup {NULL},
              a \in AllocChoices(Cur) \cup {NULL} :
              NoEffect(Any_Copy(Cur, n, h, a), Cur)
        /\ \A type \in TypeIDs, src \in Srcs :
              \A oc \in SetOutcomes(Cur, n, src, Len(src.bytes)) :
                  NoEffect(Any_Set(Cur, n, type, src, Len(src.bytes), oc), Cur)
        /\ \A x \in Handles(Cur) :
              /\ NoEffect(Any_Move(Cur, n, x), Cur)
              /\ NoEffect(Any_Move(Cur, x, n), Cur)
              /\ NoEffect(Any_Swap(Cur, n, x), Cur)
              /\ NoEffect(Any_Swap(Cur, x, n), Cur)

\* a populated box is named as the other operand of a Move and of a Swap with
\* a null handle, next to a second live box
C17_Witness ==
    /\ fault = "none"
    /\ \E x \in LiveBoxes(Cur), y \in LiveBoxes(Cur) :
          /\ x # y
          /\ box[x].has_value /\ Owned(Cur, x) /\ View(Cur, x) = <<1, 1>>
          /\ NoEffect(Any_Move(Cur, x, Any_null), Cur)
          /\ NoEffect(Any_Move(Cur, NULL, x), Cur)
          /\ NoEffect(Any_Swap(Cur, Any_null, x), Cur)
          /\ NoEffect(Any_Destroy(Cur, Any_null), Cur)

\* C18: Reset on a live populated box frees its buffer exactly once and
\* leaves the box live with populated false, length 0, tag 0 and no buffer,
\* touching nothing else; Reset on a live box that is not populated changes
\* nothing.
C18_Reset ==
    fault = "none" =>
    \A self \in LiveBoxes(Cur) :
        LET r == Any_Reset(Cur, self)
            old == box[self].value
        IN IF box[self].has_value
           THEN /\ r.ub = "none"
                /\ Emptied(r.s, self)
                /\ r.s.box[self].is_user_defined = box[self].is_user_defined
                /\ old # NULL => heap[Addr(old)].live /\ ~r.s.heap[Addr(old)].live
                /\ LiveAddrs(r.s) = LiveAddrs(Cur) \ {Addr(old)}
                /\ r.s.cnt = g_any_alloc_count - (IF old = NULL THEN 0 ELSE 1)
                /\ r.s.hdr = hdr
                /\ \A h \in Boxes \ {self} : r.s.box[h] = box[h]
           ELSE r.s = Cur /\ r.ub = "none"

\* C19: after Any_Reset on any live box, whether or not a value was ever
\* set, the box has no buffer and its type and size read 0.
C19_ResetAlwaysClears ==
    fault = "none" =>
    \A self \in LiveBoxes(Cur) :
        LET r == Any_Reset(Cur, self)
        IN /\ Any_Type(r.s, self) = 0
           /\ Any_Size(r.s, self) = 0
           /\ Any_Get(r.s, self) = NULL

\* the buffers the live boxes of s point to
Buffers(s) == {s.box[h].value : h \in LiveBoxes(s)} \ {NULL}

\* s is as successful Create, Set, Reset, Copy, Move, Swap and Destroy calls
\* leave the program: every live box came from Create or Copy and is in
\* step, no buffer has two owners or none, and the counter counts the live
\* headers and buffers
Clean(s) ==
    /\ \A h \in LiveBoxes(s) : ~s.box[h].is_user_defined /\ InStep(s, h)
    /\ \A h \in LiveBoxes(s) : \A k \in LiveBoxes(s) \ {h} :
          s.box[h].value = NULL \/ s.box[h].value # s.box[k].value
    /\ LiveAddrs(s) = Buffers(s)
    /\ s.cnt = Cardinality(LiveBoxes(s)) + Cardinality(LiveAddrs(s))

\* the outcomes of Any_Destroy on every box of S, once each, in every order
RECURSIVE DestroyAll(_, _, _)
DestroyAll(s, S, ub) ==
    IF S = {} THEN {[s |-> s, ub |-> ub]}
    ELSE UNION {DestroyAll(Any_Destroy(s, h).s, S \ {h},
                           Ub2(ub, Any_Destroy(s, h).ub)) : h \in S}

\* the successful calls a caller can make in state s
SuccessfulCalls(s) ==
    {r \in {Any_Create(s, h, type, size, a) :
              h \in HeaderChoices(s), type \in TypeIDs, size \in Sizes,
              a \in AllocChoices(s)} : r.ret # NULL}
    \cup {r \in UNION {{Any_Set(s, self, type, src, Len(src.bytes), oc) :
                          oc \in SetOutcomes(s, self, src, Len(src.bytes))} :
                       self \in LiveBoxes(s), type \in TypeIDs, src \in RealSrcs} :
            r.ret # NULL}
    \cup {r \in {Any_Copy(s, self, h, a) :
                   self \in LiveBoxes(s), h \in HeaderChoices(s),
                   a \in AllocChoices(s)} : r.ret # NULL}
    \cup {Any_Reset(s, self) : self \in LiveBoxes(s)}
    \cup {Any_Destroy(s, self) : self \in LiveBoxes(s)}
    \cup {Any_Move(s, dest, src) : dest \in LiveBoxes(s), src \in LiveBoxes(s)}
    \cup {Any_Swap(s, self, other) : self \in LiveBoxes(s), other \in LiveBoxes(s)}

\* C20: the state before any call is clean, every successful Create, Set,
\* Reset, Copy, Move, Swap or Destroy call in a clean state runs into no
\* undefined behaviour and leaves a clean state, and destroying every live
\* box of a clean state once, in any order, frees no buffer twice and leaves
\* no buffer, no header and a zero allocation counter.
C20_NoLeak ==
    fault = "none" =>
    /\ (LiveBoxes(Cur) = {} /\ LiveAddrs(Cur) = {} /\ g_any_alloc_count = 0)
          => Clean(Cur)
    /\ Clean(Cur) =>
          /\ \A r \in SuccessfulCalls(Cur) : r.ub = "none" /\ Clean(r.s)
          /\ \A d \in DestroyAll(Cur, LiveBoxes(Cur), "none") :
                /\ d.ub = "none"
                /\ LiveAddrs(d.s) = {}
                /\ LiveBoxes(d.s) = {}
                /\ d.s.cnt = 0

\* a box that has been resized and a copy of it, both holding two bytes, are
\* destroyed
C20_Witness ==
    /\ fault = "none"
    /\ Clean(Cur)
    /\ \E a \in LiveBoxes(Cur), c \in LiveBoxes(Cur) :
          /\ copyOf[c] = a
          /\ box[a].has_value /\ box[c].has_value
          /\ View(Cur, a) = <<1, 1>> /\ View(Cur, c) = <<1, 1>>
          /\ g_any_alloc_count = 4
          /\ \A d \in DestroyAll(Cur, LiveBoxes(Cur), "none") : d.s.cnt = 0

\* the live boxes whose storage field points to the buffer at a
Owners(s, a) == {h \in LiveBoxes(s) : s.box[h].value = a}

\* C21: every allocated buffer is referenced by the storage field of exactly
\* one live box, and every live box that references a buffer references an
\* allocated one.
C21_SingleOwner ==
    fault = "none" =>
    /\ \A a \in LiveAddrs(Cur) : Cardinality(Owners(Cur, a)) = 1
    /\ \A h \in LiveBoxes(Cur) : box[h].value # NULL => Owned(Cur, h)

\* C22: the length of every live box is the byte size of the buffer it owns,
\* and 0 when it owns none.
C22_LengthInvariant ==
    fault = "none" => \A h \in LiveBoxes(Cur) : InStep(Cur, h)

\* the live boxes whose header Create or Copy allocated
EngineBoxes(s) == {h \in LiveBoxes(s) : ~s.box[h].is_user_defined}

\* C23: a live box (here: one that Create or Copy returned) whose populated
\* flag is true owns a buffer; a successful Set leaves the box populated,
\* owning a buffer that holds the bytes supplied; and the bytes a populated
\* box holds are not changed by a call on another box that does not name it.
C23_Populated ==
    fault = "none" =>
    /\ \A h \in EngineBoxes(Cur) : box[h].has_value => Owned(Cur, h)
    /\ \A h \in EngineBoxes(Cur), type \in TypeIDs, src \in RealSrcs :
          \A oc \in SetOutcomes(Cur, h, src, Len(src.bytes)) :
              LET r == Any_Set(Cur, h, type, src, Len(src.bytes), oc)
              IN r.ret # NULL =>
                  /\ Any_HasValue(r.s, h) /\ Owned(r.s, h)
                  /\ View(r.s, h) = src.bytes
    /\ \A h \in EngineBoxes(Cur) : \A c \in LiveBoxes(Cur) \ {h} :
          box[h].has_value =>
              \A r \in CallsOn(Cur, c, h) :
                  Any_HasValue(r.s, h) /\ View(r.s, h) = View(Cur, h)

\* the storage field of box h is present
Present(s, h) == s.box[h].value # NULL

\* handle x is null, so that a Move or Swap with it does nothing, or a box
\* whose storage is present
Gives(s, x) == Any_IsNull(x) \/ Present(s, x)

\* every Set a caller can make on box k
SetCalls(s, k) ==
    UNION {{Any_Set(s, k, type, src, Len(src.bytes), oc) :
              oc \in SetOutcomes(s, k, src, Len(src.bytes))} :
                 type \in TypeIDs, src \in Srcs}

\* every Create, Init and Copy a caller can make
NewBoxCalls(s) ==
    {Any_Create(s, h, type, size, a) :
        h \in HeaderChoices(s) \cup {NULL}, type \in TypeIDs, size \in Sizes,
        a \in AllocChoices(s) \cup {NULL}}
    \cup UNION {{Any_Init(s, h, type, size, a, hv) :
                   h \in HeaderChoices(s) \cup {NULL}, type \in TypeIDs,
                   size \in Sizes, a \in AllocChoices(s) \cup {NULL}} :
                      hv \in BOOLEAN}
    \cup {Any_Copy(s, self, h, a) :
            self \in Handles(s), h \in HeaderChoices(s) \cup {NULL},
            a \in AllocChoices(s) \cup {NULL}}

\* the calls other than a Reset of box h, a Destroy of it and a Move out of
\* it; with giving, also other than a Move into h or a Swap of h with a box
\* whose storage is absent
OtherCalls(s, h, giving) ==
    NewBoxCalls(s)
    \cup UNION {SetCalls(s, k) : k \in Handles(s)}
    \cup {Any_Reset(s, k) : k \in Handles(s) \ {h}}
    \cup {Any_Destroy(s, k) : k \in Handles(s) \ {h}}
    \cup {Any_Move(s, d, x) :
            d \in {k \in Handles(s) : k # h},
            x \in Handles(s) \ {h}}
    \cup {Any_Move(s, h, x) :
            x \in {k \in Handles(s) \ {h} : giving => Gives(s, k)}}
    \cup {Any_Swap(s, x, y) :
            x \in {k \in Handles(s) : k # h},
            y \in Handles(s) \ {h}}
    \cup UNION {{Any_Swap(s, h, x), Any_Swap(s, x, h)} :
                  x \in {k \in Handles(s) : k = h \/ (giving => Gives(s, k))}}

C25_AllocFailure ==
    fault = "none" =>
    \A h \in HeaderChoices(Cur) \cup {NULL}, a \in AllocChoices(Cur) \cup {NULL} :
        (h = NULL \/ a = NULL) =>
        /\ \A type \in TypeIDs, size \in Sizes :
              NoEffect(Any_Create(Cur, h, type, size, a), Cur)
        /\ \A self \in LiveBoxes(Cur) :
              box[self].has_value => NoEffect(Any_Copy(Cur, self, h, a), Cur)

\* the buffer allocation fails, after the header allocation succeeded, in a
\* Create and in the Copy of a populated two-byte box
C25_Witness ==
    /\ fault = "none"
    /\ \E self \in LiveBoxes(Cur), h \in HeaderChoices(Cur) :
          /\ box[self].has_value /\ Owned(Cur, self) /\ View(Cur, self) = <<1, 1>>
          /\ g_any_alloc_count = 2
          /\ NoEffect(Any_Copy(Cur, self, h, NULL), Cur)
          /\ NoEffect(Any_Create(Cur, h, 1, 2, NULL), Cur)

\* C26: a Set on a box in step whose resize fails (the reallocation returns
\* no buffer), the resize to length 0 included, reports failure and leaves
\* the box, its buffer and everything else exactly as before.
C26_SetFailureKeepsBox ==
    fault = "none" =>
    \A self \in LiveBoxes(Cur), type \in TypeIDs, src \in RealSrcs :
        (InStep(Cur, self) /\ box[self].size # Len(src.bytes)) =>
        \A oc \in SetOutcomes(Cur, self, src, Len(src.bytes)) :
            LET r == Any_Set(Cur, self, type, src, Len(src.bytes), oc)
            IN r.ret = NULL => r.s = Cur /\ r.ub = "none"

\* C29: the counter equals the number of live headers that Create or Copy
\* allocated plus the number of live buffers, is never negative, and is
\* positive while a box that Create or Copy returned is live.
C29_Counter ==
    fault = "none" =>
    /\ g_any_alloc_count
          = Cardinality(EngineBoxes(Cur)) + Cardinality(LiveAddrs(Cur))
    /\ g_any_alloc_count >= 0
    /\ EngineBoxes(Cur) # {} => g_any_alloc_count > 0

\* C27 (as first stated): Create with length 0 succeeds whenever the header
\* can be allocated, and a later Set of any length populates the box with
\* the bytes supplied.
C27_CreateZeroAlwaysSucceeds ==
    fault = "none" =>
    \A h \in HeaderChoices(Cur), type \in TypeIDs,
       a \in AllocChoices(Cur) \cup {NULL} :
        LET r == Any_Create(Cur, h, type, 0, a)
        IN /\ r.ret = h
           /\ \A src \in RealSrcs :
                 \A oc \in SetOutcomes(r.s, h, src, Len(src.bytes)) :
                     LET q == Any_Set(r.s, h, type, src, Len(src.bytes), oc)
                     IN Any_HasValue(q.s, h) /\ View(q.s, h) = src.bytes

\* C27 (amended): Create with length 0 returns NULL and leaves nothing
\* allocated when the allocation of the zero-byte buffer returns NULL;
\* otherwise it returns a live, unpopulated box of length 0 that owns a
\* zero-byte buffer.  A later Set of length 0 on it succeeds; a later Set of
\* another length fails, leaving the box as it was, when the reallocation
\* fails; and every Set that succeeds leaves the box populated with the tag,
\* the length and the bytes supplied.
C27_CreateZero ==
    fault = "none" =>
    \A h \in HeaderChoices(Cur), type \in TypeIDs,
       a \in AllocChoices(Cur) \cup {NULL} :
        LET r == Any_Create(Cur, h, type, 0, a)
        IN IF a = NULL THEN NoEffect(r, Cur)
           ELSE /\ r.ret = h /\ ~Any_IsNull(h)
                /\ AsCreated(r.s, h)
                /\ Any_Size(r.s, h) = 0 /\ Any_Type(r.s, h) = type
                /\ r.s.box[h].value = a
                /\ r.s.heap[a] = [live |-> TRUE, bytes |-> <<>>]
                /\ \A tag \in TypeIDs, src \in RealSrcs :
                      \A oc \in SetOutcomes(r.s, h, src, Len(src.bytes)) :
                          LET q == Any_Set(r.s, h, tag, src, Len(src.bytes), oc)
                          IN /\ q.ub = "none"
                             /\ Len(src.bytes) = 0 => q.ret = h
                             /\ oc.mode = "fail" => q.ret = NULL /\ q.s = r.s
                             /\ oc.mode \notin {"fail"} =>
                                   /\ q.ret = h
                                   /\ Any_HasValue(q.s, h)
                                   /\ Any_Type(q.s, h) = tag
                                   /\ Any_Size(q.s, h) = Len(src.bytes)
                                   /\ View(q.s, h) = src.bytes
                                   /\ InStep(q.s, h)

\* next to a populated box, a zero-length box is created and takes two bytes
\* under another tag in a block at a new address
C27_Witness ==
    /\ fault = "none"
    /\ \E b \in LiveBoxes(Cur) : box[b].has_value /\ Owned(Cur, b)
    /\ \E h \in HeaderChoices(Cur), a \in AllocChoices(Cur) :
          LET r == Any_Create(Cur, h, 0, 0, a)
          IN /\ r.ret = h /\ Any_Size(r.s, h) = 0 /\ Owned(r.s, h)
             /\ \E n \in AllocChoices(r.s) :
                   LET q == Any_Set(r.s, h, 1, [null |-> FALSE, bytes |-> <<1, 1>>],
                                    2, [mode |-> "move", addr |-> n])
                   IN q.ret = h /\ View(q.s, h) = <<1, 1>> /\ n # a

\* C28: for every live box that holds no value, a created box that was
\* never set included, Any_Get returns NULL and Any_Size returns 0.
C28_EmptyAccessors ==
    fault = "none" =>
    \A h \in LiveBoxes(Cur) :
        ~Any_HasValue(Cur, h) => Any_Get(Cur, h) = NULL /\ Any_Size(Cur, h) = 0

\* C30: Copy of a populated box of length 0 returns, when both allocations
\* succeed, a new live box, not NULL, that is populated, has the same tag and
\* length 0 and equals the original; the Copy of the same box unpopulated
\* returns NULL.
C30_CopyZeroLength ==
    fault = "none" =>
    \A self \in LiveBoxes(Cur), h \in HeaderChoices(Cur), a \in AllocChoices(Cur) :
        (box[self].has_value /\ box[self].size = 0) =>
        LET r == Any_Copy(Cur, self, h, a)
            u == Any_Copy([Cur EXCEPT !.box[self].has_value = FALSE], self, h, a)
        IN /\ r.ret = h /\ r.ret # NULL /\ h # self
           /\ r.ub = "none"
           /\ r.s.hdr[h] = "live"
           /\ Any_HasValue(r.s, h)
           /\ Any_Type(r.s, h) = box[self].type
           /\ Any_Size(r.s, h) = 0
           /\ Owned(r.s, h) /\ InStep(r.s, h)
           /\ Any_Equals(r.s, self, h) /\ Equals_Ub(r.s, self, h) = "none"
           /\ SameValue(Cur, r.s, self)
           /\ u.ret = NULL

\* a box populated with length 0 after it was emptied, so that it owns no
\* buffer, and a box populated with length 0 that owns a zero-byte buffer
\* are copied
C30_Witness ==
    /\ fault = "none"
    /\ \E self \in EngineBoxes(Cur), h \in HeaderChoices(Cur), a \in AllocChoices(Cur) :
          /\ box[self].has_value /\ box[self].size = 0 /\ box[self].type = 1
          /\ box[self].value = NULL
          /\ Any_Copy(Cur, self, h, a).ret = h
          /\ LET s == Any_Set(Cur, self, 1, [null |-> FALSE, bytes |-> <<1>>], 1,
                              [mode |-> "move", addr |-> a]).s
                 t == Any_Set(s, self, 1, [null |-> FALSE, bytes |-> <<>>], 0,
                              [mode |-> "inplace", addr |-> a]).s
             IN /\ t.box[self].has_value /\ t.box[self].size = 0
                /\ Owned(t, self)
                /\ \E b \in AllocChoices(t) : Any_Copy(t, self, h, b).ret = h


\* every buffer allocated both in s and in t has the same number of bytes
SizesKept(s, t) ==
    \A a \in Addrs :
        (s.heap[a].live /\ t.heap[a].live) =>
            Len(t.heap[a].bytes) = Len(s.heap[a].bytes)

\* every call a caller can make other than a Set that reaches the realloc:
\* Create, Init, Copy, Reset, Destroy, Move, Swap, and the Sets that are
\* rejected or have the box's current length
CallsButResize(s) ==
    NewBoxCalls(s)
    \cup {Any_Set(s, k, type, src, Len(src.bytes), NoOutcome) :
            k \in {x \in Handles(s) : Any_IsNull(x)}, type \in TypeIDs,
            src \in Srcs}
    \cup UNION {{Any_Set(s, k, type, src, Len(src.bytes), NoOutcome) :
                   src \in {x \in Srcs : x.null \/ Len(x.bytes) = s.box[k].size}} :
                      k \in LiveBoxes(s), type \in TypeIDs}
    \cup {Any_Reset(s, k) : k \in Handles(s)}
    \cup {Any_Destroy(s, k) : k \in Handles(s)}
    \cup {Any_Move(s, d, x) : d \in Handles(s), x \in Handles(s)}
    \cup {Any_Swap(s, x, y) : x \in Handles(s), y \in Handles(s)}

\* C31: a Set on a live box with a payload of the box's current length
\* succeeds, keeps the box's buffer pointer, allocates and frees nothing, and
\* changes only the bytes the box reads, its tag and its populated flag:
\* every other box, every other buffer, the headers and the allocation
\* counter are as before; and no call other than a Set of another length
\* changes the number of bytes of a buffer that stays allocated.
C31_SetSameLength ==
    fault = "none" =>
    /\ \A self \in LiveBoxes(Cur), type \in TypeIDs, src \in RealSrcs :
          box[self].size = Len(src.bytes) =>
          LET r == Any_Set(Cur, self, type, src, Len(src.bytes), NoOutcome)
          IN /\ r.ret = self /\ r.ub = "none"
             /\ r.s.box[self] = [box[self] EXCEPT !.type = type,
                                                  !.has_value = TRUE]
             /\ View(r.s, self) = src.bytes
             /\ \A h \in Boxes \ {self} : r.s.box[h] = box[h]
             /\ r.s.hdr = hdr
             /\ r.s.cnt = g_any_alloc_count
             /\ \A a \in Addrs :
                   /\ r.s.heap[a].live = heap[a].live
                   /\ Len(r.s.heap[a].bytes) = Len(heap[a].bytes)
             /\ \A a \in Addrs \ {box[self].value} : r.s.heap[a] = heap[a]
    /\ \A r \in CallsButResize(Cur) : SizesKept(Cur, r.s)


\* C32: Move(a, a) on a live box a runs into no undefined behaviour and
\* leaves a live and empty (tag 0, length 0, no buffer, HasValue false); the
\* buffer a held was allocated and is freed by the call, once; no other
\* buffer is freed, and every other box, every header and a's ownership flag
\* are as before.
C32_SelfMove ==
    fault = "none" =>
    \A a \in LiveBoxes(Cur) :
        LET r == Any_Move(Cur, a, a)
            old == box[a].value
        IN /\ r.ub = "none"
           /\ Emptied(r.s, a)
           /\ ~Any_HasValue(r.s, a)
           /\ r.s.box[a].is_user_defined = box[a].is_user_defined
           /\ old # NULL => heap[Addr(old)].live /\ ~r.s.heap[Addr(old)].live
           /\ LiveAddrs(r.s) = LiveAddrs(Cur) \ {Addr(old)}
           /\ r.s.cnt = g_any_alloc_count - (IF old = NULL THEN 0 ELSE 1)
           /\ r.s.hdr = hdr
           /\ \A h \in Boxes \ {a} : r.s.box[h] = box[h]


\* the live boxes whose header the caller provided to Any_Init
UserBoxes(s) == {h \in LiveBoxes(s) : s.box[h].is_user_defined}

\* the call r made in state s freed no buffer and no header
FreesNothing(s, r) ==
    /\ r.ub = "none"
    /\ LiveAddrs(r.s) = LiveAddrs(s)
    /\ r.s.hdr = s.hdr
    /\ r.s.cnt = s.cnt

\* C33: after Destroy on a live box whose header the caller provided, the
\* header is still there and the box has tag 0, length 0, no buffer and
\* HasValue false; a second Destroy of it and a Reset of it free nothing.
C33_DestroyClears ==
    fault = "none" =>
    \A self \in UserBoxes(Cur) :
        LET r == Any_Destroy(Cur, self)
        IN /\ r.s.hdr[self] = "live"
           /\ Any_Type(r.s, self) = 0
           /\ Any_Size(r.s, self) = 0
           /\ Any_Get(r.s, self) = NULL
           /\ ~Any_HasValue(r.s, self)
           /\ FreesNothing(r.s, Any_Destroy(r.s, self))
           /\ FreesNothing(r.s, Any_Reset(r.s, self))


\* every Set, Reset, Copy, Move and Swap a caller can make
ValueCalls(s) ==
    UNION {SetCalls(s, k) : k \in Handles(s)}
    \cup {Any_Reset(s, k) : k \in Handles(s)}
    \cup {Any_Copy(s, k, h, a) :
            k \in Handles(s), h \in HeaderChoices(s) \cup {NULL},
            a \in AllocChoices(s) \cup {NULL}}
    \cup {Any_Move(s, d, x) : d \in Handles(s), x \in Handles(s)}
    \cup {Any_Swap(s, x, y) : x \in Handles(s), y \in Handles(s)}

\* every box live in s is live in t with the is_user_defined flag it had
FlagsKept(s, t, S) ==
    \A h \in S :
        /\ t.hdr[h] = "live"
        /\ t.box[h].is_user_defined = s.box[h].is_user_defined

\* C34: Create and Copy return a box whose is_user_defined flag is false,
\* Init leaves the flag of the caller's header true; no Set, Reset, Copy,
\* Move or Swap, and no Create or Init of another box, frees the header of a
\* live box or changes its flag; and Destroy of a live box frees its header
\* exactly when its flag is false, leaves every other header as it was and
\* every other box with its flag.
C34_OwnerFlag ==
    fault = "none" =>
    /\ \A r \in ValueCalls(Cur) \cup NewBoxCalls(Cur) :
          FlagsKept(Cur, r.s, LiveBoxes(Cur))
    /\ \A h \in HeaderChoices(Cur), type \in TypeIDs, size \in Sizes,
          a \in AllocChoices(Cur) \cup {NULL}, hv \in BOOLEAN :
          /\ Any_Create(Cur, h, type, size, a).ret # NULL =>
                /\ Any_Create(Cur, h, type, size, a).ret = h
                /\ ~Any_IsUserDefined(Any_Create(Cur, h, type, size, a).s, h)
          /\ Any_Create(Cur, h, type, size, a).ret = NULL =>
                Any_Create(Cur, h, type, size, a).s.hdr[h] = "free"
          /\ Any_Init(Cur, h, type, size, a, hv).s.hdr[h] = "live"
          /\ Any_IsUserDefined(Any_Init(Cur, h, type, size, a, hv).s, h)
          /\ \A self \in LiveBoxes(Cur) :
                Any_Copy(Cur, self, h, a).ret # NULL =>
                    /\ Any_Copy(Cur, self, h, a).ret = h
                    /\ ~Any_IsUserDefined(Any_Copy(Cur, self, h, a).s, h)
    /\ \A self \in LiveBoxes(Cur) :
          LET r == Any_Destroy(Cur, self)
          IN /\ r.s.hdr[self] = "free" <=> ~box[self].is_user_defined
             /\ \A h \in Boxes \ {self} : r.s.hdr[h] = hdr[h]
             /\ FlagsKept(Cur, r.s, LiveBoxes(Cur) \ {self})
             /\ box[self].is_user_defined =>
                   Any_IsUserDefined(r.s, self)
             /\ r.s.cnt = g_any_alloc_count
                          - (IF box[self].value = NULL THEN 0 ELSE 1)
                          - (IF box[self].is_user_defined THEN 0 ELSE 1)

\* a populated box whose header the caller provided and a populated box that
\* Create returned are moved into one another and swapped, and each is
\* destroyed
C34_Witness ==
    /\ fault = "none"
    /\ \E u \in UserBoxes(Cur), e \in EngineBoxes(Cur) :
          /\ box[u].has_value /\ box[e].has_value
          /\ Owned(Cur, u) /\ Owned(Cur, e)
          /\ View(Cur, u) = <<1>> /\ View(Cur, e) = <<1, 1>>
          /\ Any_IsUserDefined(Any_Move(Cur, u, e).s, u)
          /\ ~Any_IsUserDefined(Any_Move(Cur, u, e).s, e)
          /\ View(Any_Move(Cur, u, e).s, u) = <<1, 1>>
          /\ ~Any_IsUserDefined(Any_Move(Cur, e, u).s, e)
          /\ Any_IsUserDefined(Any_Swap(Cur, u, e).s, u)
          /\ ~Any_IsUserDefined(Any_Swap(Cur, u, e).s, e)
          /\ Any_Destroy(Cur, e).s.hdr[e] = "free"
          /\ Any_Destroy(Cur, u).s.hdr[u] = "live"

====
